---- MODULE Spec2Model ----
(***************************************************************************)
(* Streaming JSON-token to XML-token converter (src/main.go).              *)
(*                                                                         *)
(* Two entry points of the package are modelled:                           *)
(*   Spec      Convert(j, x): the driver loop that wraps the converter's   *)
(*             output in <root> and forwards it to an XMLEncoder, fed by   *)
(*             an arbitrary JSONDecoder (any token, EOF or error at any    *)
(*             call);                                                      *)
(*   SpecPull  Tokens(j) followed by repeated c.Token() calls, fed by a    *)
(*             JSONDecoder that delivers the token stream of one           *)
(*             well-formed JSON document and then io.EOF.                  *)
(***************************************************************************)
EXTENDS Integers, Sequences, FiniteSets, TLC

VARIABLES
    c,          \* the Converter struct: types, data, keyNames, arrayKeys
    src,        \* state of the well-formed JSONDecoder (SpecPull)
    pc,         \* position of the caller: Convert's loop / the pulling caller
    ret,        \* what Convert returned (an error name, "nil", or "none" while running)
    sink,       \* the xml.Tokens handed to x.EncodeToken, in call order
    pulled,     \* observation: the tokens c.Token() returned to Convert, in order
    consumed,   \* observation: the json.Tokens Convert's decoder delivered, in order
    sinkErr,    \* the error the latest x.EncodeToken call returned ("nil": none)
    last,       \* observation: the most recent c.Token() call (pre-state, reads, result)
    open,       \* observation: one entry per open frame (start tag, governing key)
    closed      \* observation: the element closed by the most recent pull, if any

vars == <<c, src, pc, ret, sink, sinkErr, pulled, consumed, last, open, closed>>

----------------------------------------------------------------------------
(* Bounds of the model *)

\* most json.Tokens an arbitrary decoder delivers before it can only end (Spec)
MaxTokens == 4
\* deepest nesting of containers in a well-formed document (SpecPull)
MaxDepth == 5
\* the well-formed decoder delivers no further key once keyNames holds this many
MaxKeys == 3

----------------------------------------------------------------------------
(* Types and tokens *)

typObject == 0
typArray  == 1
typBool   == 2
typNumber == 3
typString == 4
typNull   == 5

ttypeNames == <<"object", "array", "boolean", "number", "string", "null">>

\* ttypeNames[typ], Go arrays being 0-based
TypeName(typ) == ttypeNames[typ + 1]

\* A json.Token: t is its dynamic Go type, s/b/n its payload.
JTok(t, s, b, n) == [t |-> t, s |-> s, b |-> b, n |-> n]
Delim(ch)      == JTok("delim", ch, FALSE, 0)
JString(s)     == JTok("string", s, FALSE, 0)
JBool(b)       == JTok("bool", "", b, 0)
JFloat(n)      == JTok("float64", "", FALSE, n)
JNumber(s)     == JTok("json.Number", s, FALSE, 0)
JNull          == JTok("nil", "", FALSE, 0)
JOther         == JTok("other", "", FALSE, 0)

\* What decoder.Token() returns: (token, err)
Resp(err, tok) == [err |-> err, tok |-> tok]
RespEOF        == Resp("EOF", JNull)
RespErr        == Resp("ErrSource", JNull)

\* An xml.Token: StartElement / EndElement (s is Name.Local) or CharData (s is the text)
StartElement(name) == [x |-> "start", s |-> name]
EndElement(name)   == [x |-> "end", s |-> name]
CharData(text)     == [x |-> "chardata", s |-> text]

Top(st) == st[Len(st)]
Pop(st) == SubSeq(st, 1, Len(st) - 1)

\* strconv.FormatBool
FormatBool(b) == IF b THEN "true" ELSE "false"

DigitChars == <<"0", "1", "2", "3", "4", "5", "6", "7", "8", "9">>

RECURSIVE FormatNat(_)
FormatNat(n) ==
    IF n < 10 THEN DigitChars[n + 1]
    ELSE FormatNat(n \div 10) \o DigitChars[(n % 10) + 1]

\* FormatFloat with format 'e' in place of 'f'
FormatFloat_Exp(n) == FormatNat(n) \o "e+00"

\* strconv.FormatFloat(f, 'f', -1, 64) on the integral values the model draws
FormatFloat(n) == IF n < 0 THEN "-" \o FormatNat(-n) ELSE FormatNat(n)

----------------------------------------------------------------------------
(* The Converter *)

\* Tokens(j) / Convert's literal: every field but decoder is the zero value
NewConverter == [types |-> <<>>, data |-> <<>>, keyNames |-> <<>>, arrayKeys |-> <<>>]

\* outputStart without line 134: the key is never removed
outputStart_KeepKey(cv, typ) ==
    LET c1 == [cv EXCEPT !.types = Append(@, typ)] IN
    IF Len(c1.keyNames) > 0
    THEN [c |-> c1, tok |-> StartElement(Top(c1.keyNames))]
    ELSE [c |-> c1, tok |-> StartElement(TypeName(typ))]

\* (c *Converter) outputStart(typ)
outputStart(cv, typ) ==
    LET c1 == [cv EXCEPT !.types = Append(@, typ)] IN
    IF Len(c1.keyNames) > 0
    THEN LET lastKey == Top(c1.keyNames) IN
         IF Len(c1.arrayKeys) > 0 /\ lastKey = Top(c1.arrayKeys)
         THEN [c |-> c1, tok |-> StartElement(lastKey)]
         ELSE [c |-> [c1 EXCEPT !.keyNames = Pop(@)], tok |-> StartElement(lastKey)]
    ELSE [c |-> c1, tok |-> StartElement(TypeName(typ))]

\* outputEnd without line 150: the frame is never popped
outputEnd_NoPop(cv) ==
    LET typ == Top(cv.types) IN
    IF Len(cv.keyNames) > 0 /\ Len(cv.arrayKeys) > 0
           /\ Top(cv.keyNames) = Top(cv.arrayKeys)
    THEN [c |-> cv, tok |-> EndElement(Top(cv.arrayKeys))]
    ELSE IF Len(cv.keyNames) > 0
    THEN [c |-> [cv EXCEPT !.keyNames = Pop(@)], tok |-> EndElement(Top(cv.keyNames))]
    ELSE [c |-> cv, tok |-> EndElement(TypeName(typ))]

\* (c *Converter) outputEnd()
outputEnd(cv) ==
    LET typ == Top(cv.types)
        c1  == [cv EXCEPT !.types = Pop(@)]
    IN
    IF Len(c1.keyNames) > 0 /\ Len(c1.arrayKeys) > 0
           /\ Top(c1.keyNames) = Top(c1.arrayKeys)
    THEN [c |-> c1, tok |-> EndElement(Top(c1.arrayKeys))]
    ELSE IF Len(c1.keyNames) > 0
    THEN [c |-> [c1 EXCEPT !.keyNames = Pop(@)], tok |-> EndElement(Top(c1.keyNames))]
    ELSE [c |-> c1, tok |-> EndElement(TypeName(typ))]

\* (c *Converter) outputType(typ, data)
outputType(cv, typ, data) == outputStart([cv EXCEPT !.data = <<data>>], typ)

\* What one c.Token() call yields: the converter afterwards, the token returned
\* (<<>> is the nil token), the error, and how many decoder.Token() calls it made.
Ok(r, calls)        == [c |-> r.c, tok |-> <<r.tok>>, err |-> "nil", calls |-> calls]
Fail(cv, err, calls) == [c |-> cv, tok |-> <<>>, err |-> err, calls |-> calls]

\* the type switch with line 93 testing only len(c.types) == 0
Classify_AnyFrame(cv, token, calls) ==
    CASE token.t = "delim" ->
            (CASE token.s = "{" -> Ok(outputStart(cv, typObject), calls)
               [] token.s = "[" ->
                    Ok(outputStart(
                         IF Len(cv.keyNames) > 0
                         THEN [cv EXCEPT !.arrayKeys = Append(@, Top(cv.keyNames))]
                         ELSE cv, typArray), calls)
               [] token.s = "}" ->
                    IF Len(cv.types) = 0 \/ Top(cv.types) # typObject
                    THEN Fail(cv, "ErrInvalidToken", calls)
                    ELSE Ok(outputEnd(cv), calls)
               [] token.s = "]" ->
                    IF Len(cv.types) = 0
                    THEN Fail(cv, "ErrInvalidToken", calls)
                    ELSE Ok(outputEnd(
                              IF Len(cv.arrayKeys) > 0
                              THEN [cv EXCEPT !.arrayKeys = Pop(@)]
                              ELSE cv), calls)
               [] OTHER -> Fail(cv, "ErrUnknownToken", calls))
      [] token.t = "bool"        -> Ok(outputType(cv, typBool, FormatBool(token.b)), calls)
      [] token.t = "float64"     -> Ok(outputType(cv, typNumber, FormatFloat(token.n)), calls)
      [] token.t = "json.Number" -> Ok(outputType(cv, typNumber, token.s), calls)
      [] token.t = "string"      -> Ok(outputType(cv, typString, token.s), calls)
      [] token.t = "nil"         -> Ok(outputType(cv, typNull, ""), calls)
      [] OTHER                   -> Fail(cv, "ErrUnknownToken", calls)

\* the type switch without lines 96-98: an array's closing never pops arrayKeys
Classify_NoArrayPop(cv, token, calls) ==
    CASE token.t = "delim" ->
            (CASE token.s = "{" -> Ok(outputStart(cv, typObject), calls)
               [] token.s = "[" ->
                    Ok(outputStart(
                         IF Len(cv.keyNames) > 0
                         THEN [cv EXCEPT !.arrayKeys = Append(@, Top(cv.keyNames))]
                         ELSE cv, typArray), calls)
               [] token.s = "}" ->
                    IF Len(cv.types) = 0 \/ Top(cv.types) # typObject
                    THEN Fail(cv, "ErrInvalidToken", calls)
                    ELSE Ok(outputEnd(cv), calls)
               [] token.s = "]" ->
                    IF Len(cv.types) = 0 \/ Top(cv.types) # typArray
                    THEN Fail(cv, "ErrInvalidToken", calls)
                    ELSE Ok(outputEnd(cv), calls)
               [] OTHER -> Fail(cv, "ErrUnknownToken", calls))
      [] token.t = "bool"        -> Ok(outputType(cv, typBool, FormatBool(token.b)), calls)
      [] token.t = "float64"     -> Ok(outputType(cv, typNumber, FormatFloat(token.n)), calls)
      [] token.t = "json.Number" -> Ok(outputType(cv, typNumber, token.s), calls)
      [] token.t = "string"      -> Ok(outputType(cv, typString, token.s), calls)
      [] token.t = "nil"         -> Ok(outputType(cv, typNull, ""), calls)
      [] OTHER                   -> Fail(cv, "ErrUnknownToken", calls)

\* the type switch of Token(), lines 77-115
Classify(cv, token, calls) ==
    CASE token.t = "delim" ->
            (CASE token.s = "{" -> Ok(outputStart(cv, typObject), calls)
               [] token.s = "[" ->
                    Ok(outputStart(
                         IF Len(cv.keyNames) > 0
                         THEN [cv EXCEPT !.arrayKeys = Append(@, Top(cv.keyNames))]
                         ELSE cv, typArray), calls)
               [] token.s = "}" ->
                    IF Len(cv.types) = 0 \/ Top(cv.types) # typObject
                    THEN Fail(cv, "ErrInvalidToken", calls)
                    ELSE Ok(outputEnd(cv), calls)
               [] token.s = "]" ->
                    IF Len(cv.types) = 0 \/ Top(cv.types) # typArray
                    THEN Fail(cv, "ErrInvalidToken", calls)
                    ELSE Ok(outputEnd(
                              IF Len(cv.arrayKeys) > 0
                              THEN [cv EXCEPT !.arrayKeys = Pop(@)]
                              ELSE cv), calls)
               [] OTHER -> Fail(cv, "ErrUnknownToken", calls))
      [] token.t = "bool"        -> Ok(outputType(cv, typBool, FormatBool(token.b)), calls)
      [] token.t = "float64"     -> Ok(outputType(cv, typNumber, FormatFloat(token.n)), calls)
      [] token.t = "json.Number" -> Ok(outputType(cv, typNumber, token.s), calls)
      [] token.t = "string"      -> Ok(outputType(cv, typString, token.s), calls)
      [] token.t = "nil"         -> Ok(outputType(cv, typNull, ""), calls)
      [] OTHER                   -> Fail(cv, "ErrUnknownToken", calls)

\* lines 66-76 with the value read before the key's type is tested
ReadKey_CheckLate(cv, r1, r2) ==
    IF r2.err # "nil"
    THEN Fail(cv, r2.err, 2)
    ELSE IF r1.tok.t # "string"
    THEN Fail(cv, "ErrInvalidKey", 2)
    ELSE Classify([cv EXCEPT !.keyNames = Append(@, r1.tok.s)], r2.tok, 2)

\* lines 66-76 with the key appended before its type is tested
ReadKey_PushFirst(cv, r1, r2) ==
    LET c1 == [cv EXCEPT !.keyNames = Append(@, r1.tok.s)] IN
    IF r1.tok.t # "string"
    THEN Fail(c1, "ErrInvalidKey", 1)
    ELSE IF r2.err # "nil"
    THEN Fail(c1, r2.err, 2)
    ELSE Classify(c1, r2.tok, 2)

\* lines 66-76: in an object, a token other than '}' is the key of a field
ReadKey(cv, r1, r2) ==
    IF r1.tok.t # "string"
    THEN Fail(cv, "ErrInvalidKey", 1)
    ELSE LET c1 == [cv EXCEPT !.keyNames = Append(@, r1.tok.s)] IN
         IF r2.err # "nil"
         THEN Fail(c1, r2.err, 2)
         ELSE Classify(c1, r2.tok, 2)

\* Token() with the decoder read (line 62) placed before the scalar-frame test
Token_ReadFirst(cv, r1, r2) ==
    IF cv.data # <<>>
    THEN [c |-> [cv EXCEPT !.data = <<>>], tok |-> <<CharData(cv.data[1])>>,
          err |-> "nil", calls |-> 0]
    ELSE IF r1.err # "nil"
    THEN Fail(cv, r1.err, 1)
    ELSE IF Len(cv.types) > 0 /\ Top(cv.types) \notin {typObject, typArray}
    THEN Ok(outputEnd(cv), 1)
    ELSE IF Len(cv.types) > 0 /\ Top(cv.types) = typObject
              /\ ~(r1.tok.t = "delim" /\ r1.tok.s = "}")
    THEN ReadKey(cv, r1, r2)
    ELSE Classify(cv, r1.tok, 1)

\* Token() with line 66 not exempting '}': in an object every token is a key
Token_NoEndCheck(cv, r1, r2) ==
    IF cv.data # <<>>
    THEN [c |-> [cv EXCEPT !.data = <<>>], tok |-> <<CharData(cv.data[1])>>,
          err |-> "nil", calls |-> 0]
    ELSE IF Len(cv.types) > 0 /\ Top(cv.types) \notin {typObject, typArray}
    THEN Ok(outputEnd(cv), 0)
    ELSE IF r1.err # "nil"
    THEN Fail(cv, r1.err, 1)
    ELSE IF Len(cv.types) > 0 /\ Top(cv.types) = typObject
    THEN ReadKey(cv, r1, r2)
    ELSE Classify(cv, r1.tok, 1)

\* Token() without lines 55-61: an open scalar frame is not closed first
Token_NoScalarClose(cv, r1, r2) ==
    IF cv.data # <<>>
    THEN [c |-> [cv EXCEPT !.data = <<>>], tok |-> <<CharData(cv.data[1])>>,
          err |-> "nil", calls |-> 0]
    ELSE IF r1.err # "nil"
    THEN Fail(cv, r1.err, 1)
    ELSE IF Len(cv.types) > 0 /\ Top(cv.types) = typObject
              /\ ~(r1.tok.t = "delim" /\ r1.tok.s = "}")
    THEN ReadKey(cv, r1, r2)
    ELSE Classify(cv, r1.tok, 1)

\* (c *Converter) Token(); r1 and r2 are what the decoder answers to the first
\* and to the second decoder.Token() call, should the call be made.
Token(cv, r1, r2) ==
    IF cv.data # <<>>
    THEN [c |-> [cv EXCEPT !.data = <<>>], tok |-> <<CharData(cv.data[1])>>,
          err |-> "nil", calls |-> 0]
    ELSE IF Len(cv.types) > 0 /\ Top(cv.types) \notin {typObject, typArray}
    THEN Ok(outputEnd(cv), 0)
    ELSE IF r1.err # "nil"
    THEN Fail(cv, r1.err, 1)
    ELSE IF Len(cv.types) > 0 /\ Top(cv.types) = typObject
              /\ ~(r1.tok.t = "delim" /\ r1.tok.s = "}")
    THEN ReadKey(cv, r1, r2)
    ELSE Classify(cv, r1.tok, 1)

----------------------------------------------------------------------------
(* The decoders *)

Keys == {"a", "b"}

\* the scalar tokens a decoder delivers
ScalarTokens == {JBool(TRUE), JFloat(1), JString("a"), JNull}

\* An arbitrary JSONDecoder: any token of the interface's dynamic types, io.EOF
\* or an error of its own, whatever was delivered before.  n tokens were delivered.
AnyTokens ==
    {Delim("{"), Delim("}"), Delim("["), Delim("]"), Delim(","),
     JString("a"), JString("b"), JBool(TRUE), JFloat(1), JNumber("2.50"),
     JNull, JOther}

AnyResponses(n) ==
    {RespEOF, RespErr} \cup (IF n < MaxTokens THEN {Resp("nil", t) : t \in AnyTokens} ELSE {})

\* A JSONDecoder on one well-formed document: stack holds the open containers,
\* expectValue says a key was just delivered, finished that the root value is
\* complete, arrays that a start-of-array was delivered.
NewSource == [stack |-> <<>>, expectValue |-> FALSE, finished |-> FALSE, arrays |-> FALSE]

AfterValue(s, stack) ==
    [s EXCEPT !.stack = stack, !.expectValue = FALSE, !.finished = (stack = <<>>)]

Answer(r, s) == [r |-> r, s |-> s]

\* the answers the well-formed decoder can give in state s (nkeys: Len(keyNames))
WFResponses(s, nkeys) ==
    IF s.finished
    THEN {Answer(RespEOF, s)}
    ELSE IF Len(s.stack) > 0 /\ Top(s.stack) = "obj" /\ ~s.expectValue
    THEN {Answer(Resp("nil", Delim("}")), AfterValue(s, Pop(s.stack)))}
         \cup (IF nkeys < MaxKeys
               THEN {Answer(Resp("nil", JString(k)), [s EXCEPT !.expectValue = TRUE]) : k \in Keys}
               ELSE {})
    ELSE {Answer(Resp("nil", t), AfterValue(s, s.stack)) : t \in ScalarTokens}
         \cup (IF Len(s.stack) < MaxDepth
               THEN {Answer(Resp("nil", Delim("{")),
                            [s EXCEPT !.stack = Append(@, "obj"), !.expectValue = FALSE]),
                     Answer(Resp("nil", Delim("[")),
                            [s EXCEPT !.stack = Append(@, "arr"), !.expectValue = FALSE,
                                      !.arrays = TRUE])}
               ELSE {})
         \cup (IF Len(s.stack) > 0 /\ Top(s.stack) = "arr"
               THEN {Answer(Resp("nil", Delim("]")), AfterValue(s, Pop(s.stack)))}
               ELSE {})

\* the errors an XMLEncoder's EncodeToken can return
SinkResults == {"nil", "ErrSink"}

----------------------------------------------------------------------------
(* Observation of a pull *)

NoPull == [valid |-> FALSE, pre |-> NewConverter, resp |-> <<>>, tok |-> <<>>,
           err |-> "nil", calls |-> 0]

NoEntry == [kind |-> typNull, name |-> "", key |-> <<>>, bound |-> <<>>]

NoClosed == [valid |-> FALSE, e |-> NoEntry, endName |-> "", parentKey |-> <<>>,
             selfUnbound |-> FALSE, parentUnbound |-> FALSE]

\* frames 1..i are all arrays that are not the value of an object field
UnboundChain(st, i) == \A j \in 1..i : st[j].kind = typArray /\ st[j].key = <<>>

\* the entry of the frame a pull opened: its kind, its start tag's name, the
\* key read in the same pull (its governing key; <<>> if none was read) and the
\* arrayKeys entry the pull pushed (<<>> if it pushed none)
Opened(res, r1) ==
    [kind  |-> Top(res.c.types),
     name  |-> res.tok[1].s,
     key   |-> IF res.calls = 2 THEN <<r1.tok.s>> ELSE <<>>,
     bound |-> IF Len(res.c.arrayKeys) > Len(c.arrayKeys)
               THEN <<Top(res.c.arrayKeys)>> ELSE <<>>]

\* the record of the frame a pull closed: its entry, its end tag's name, the
\* governing key of the array it is an element of (<<>> if its parent is no
\* key-bound array), and whether it / its parent is an array without governing
\* key nested only in such arrays
Closed(st, res) ==
    [valid |-> TRUE, e |-> IF st = <<>> THEN NoEntry ELSE Top(st), endName |-> res.tok[1].s,
     parentKey |-> IF Len(st) > 1 /\ st[Len(st) - 1].kind = typArray
                   THEN st[Len(st) - 1].key ELSE <<>>,
     selfUnbound |-> UnboundChain(st, Len(st)),
     parentUnbound |-> Len(st) > 1 /\ UnboundChain(st, Len(st) - 1)]

Observe(res, r1, r2) ==
    /\ c' = res.c
    /\ last' = [valid |-> TRUE, pre |-> c,
                resp |-> IF res.calls = 0 THEN <<>>
                         ELSE IF res.calls = 1 THEN <<r1>> ELSE <<r1, r2>>,
                tok |-> res.tok, err |-> res.err, calls |-> res.calls]
    /\ open' = IF res.tok # <<>> /\ res.tok[1].x = "start" THEN Append(open, Opened(res, r1))
               ELSE IF res.tok # <<>> /\ res.tok[1].x = "end" /\ open # <<>> THEN Pop(open)
               ELSE open
    /\ closed' = IF res.tok # <<>> /\ res.tok[1].x = "end" THEN Closed(open, res)
                 ELSE NoClosed

\* how many decoder.Token() calls a pull of cv makes when the first answers r1
CallsMade(cv, r1) == Token(cv, r1, RespEOF).calls

\* the json.Tokens a pull took from the decoder
Delivered(res, r1, r2) ==
    IF res.calls = 0 \/ r1.err # "nil" THEN <<>>
    ELSE IF res.calls = 1 \/ r2.err # "nil" THEN <<r1.tok>>
    ELSE <<r1.tok, r2.tok>>

----------------------------------------------------------------------------
(* Convert(j, x) *)

Returned(err, at) == [err |-> err, at |-> at]
Running == Returned("none", "none")

Init ==
    /\ c = NewConverter
    /\ src = NewSource
    /\ pc = "start"
    /\ ret = Running
    /\ sink = <<>>
    /\ sinkErr = "nil"
    /\ pulled = <<>>
    /\ consumed = <<>>
    /\ last = NoPull
    /\ open = <<>>
    /\ closed = NoClosed

\* lines 179-183: the root start tag
ConvertStart ==
    /\ pc = "start"
    /\ \E e \in SinkResults :
        /\ sink' = Append(sink, StartElement("root"))
        /\ sinkErr' = e
        /\ IF e # "nil"
           THEN pc' = "done" /\ ret' = Returned(e, "rootStart")
           ELSE pc' = "loop" /\ ret' = ret
    /\ UNCHANGED <<c, src, pulled, consumed, last, open, closed>>

\* the loop with the encoder's error (line 194) ignored
Forward_IgnoreSinkError(res, e, snk) ==
    IF res.err # "nil"
    THEN IF res.err = "EOF"
         THEN [pc |-> "end", ret |-> Running, sink |-> snk, sinkErr |-> "nil", called |-> FALSE]
         ELSE [pc |-> "done", ret |-> Returned(res.err, "pull"), sink |-> snk,
               sinkErr |-> "nil", called |-> FALSE]
    ELSE IF res.tok # <<>>
    THEN [pc |-> "loop", ret |-> Running,
          sink |-> Append(snk, res.tok[1]), sinkErr |-> e, called |-> TRUE]
    ELSE [pc |-> "loop", ret |-> Running, sink |-> snk, sinkErr |-> "nil", called |-> FALSE]

\* the loop forwarding only the element tokens, not the character data
Forward_DropCharData(res, e, snk) ==
    IF res.err # "nil"
    THEN IF res.err = "EOF"
         THEN [pc |-> "end", ret |-> Running, sink |-> snk, sinkErr |-> "nil", called |-> FALSE]
         ELSE [pc |-> "done", ret |-> Returned(res.err, "pull"), sink |-> snk,
               sinkErr |-> "nil", called |-> FALSE]
    ELSE IF res.tok # <<>> /\ res.tok[1].x # "chardata"
    THEN IF e # "nil"
         THEN [pc |-> "done", ret |-> Returned(e, "forward"),
               sink |-> Append(snk, res.tok[1]), sinkErr |-> e, called |-> TRUE]
         ELSE [pc |-> "loop", ret |-> Running,
               sink |-> Append(snk, res.tok[1]), sinkErr |-> e, called |-> TRUE]
    ELSE [pc |-> "loop", ret |-> Running, sink |-> snk, sinkErr |-> "nil", called |-> FALSE]

\* the loop without the test of line 188: io.EOF is returned like any error
Forward_EOFIsError(res, e, snk) ==
    IF res.err # "nil"
    THEN [pc |-> "done", ret |-> Returned(res.err, "pull"), sink |-> snk,
          sinkErr |-> "nil", called |-> FALSE]
    ELSE IF res.tok # <<>>
    THEN IF e # "nil"
         THEN [pc |-> "done", ret |-> Returned(e, "forward"),
               sink |-> Append(snk, res.tok[1]), sinkErr |-> e, called |-> TRUE]
         ELSE [pc |-> "loop", ret |-> Running,
               sink |-> Append(snk, res.tok[1]), sinkErr |-> e, called |-> TRUE]
    ELSE [pc |-> "loop", ret |-> Running, sink |-> snk, sinkErr |-> "nil", called |-> FALSE]

\* what one iteration of the loop (lines 185-198) does with the pull's result
\* res when the encoder answers e: the new pc, the return, the encoder's input
Forward(res, e, snk) ==
    IF res.err # "nil"
    THEN IF res.err = "EOF"
         THEN [pc |-> "end", ret |-> Running, sink |-> snk, sinkErr |-> "nil", called |-> FALSE]
         ELSE [pc |-> "done", ret |-> Returned(res.err, "pull"), sink |-> snk,
               sinkErr |-> "nil", called |-> FALSE]
    ELSE IF res.tok # <<>>
    THEN IF e # "nil"
         THEN [pc |-> "done", ret |-> Returned(e, "forward"),
               sink |-> Append(snk, res.tok[1]), sinkErr |-> e, called |-> TRUE]
         ELSE [pc |-> "loop", ret |-> Running,
               sink |-> Append(snk, res.tok[1]), sinkErr |-> e, called |-> TRUE]
    ELSE [pc |-> "loop", ret |-> Running, sink |-> snk, sinkErr |-> "nil", called |-> FALSE]

\* lines 185-198: one iteration of the loop
ConvertPull ==
    /\ pc = "loop"
    /\ \E r1 \in (IF CallsMade(c, RespEOF) = 0 THEN {RespEOF}
                  ELSE AnyResponses(Len(consumed))) :
       \E r2 \in (IF CallsMade(c, r1) < 2 THEN {RespEOF}
                  ELSE AnyResponses(Len(consumed) + 1)) :
       \E e \in SinkResults :
        LET res == Token(c, r1, r2)
            f   == Forward(res, e, sink)
        IN
        /\ Observe(res, r1, r2)
        /\ pulled' = pulled \o res.tok
        /\ consumed' = consumed \o Delivered(res, r1, r2)
        /\ pc' = f.pc
        /\ ret' = f.ret
        /\ sink' = f.sink
        /\ sinkErr' = IF f.called THEN f.sinkErr ELSE sinkErr
    /\ UNCHANGED src

\* lines 200-206: the root end tag
ConvertEnd ==
    /\ pc = "end"
    /\ \E e \in SinkResults :
        /\ sink' = Append(sink, EndElement("root"))
        /\ sinkErr' = e
        /\ ret' = IF e # "nil" THEN Returned(e, "rootEnd") ELSE Returned("nil", "success")
    /\ pc' = "done"
    /\ UNCHANGED <<c, src, pulled, consumed, last, open, closed>>

Next == ConvertStart \/ ConvertPull \/ ConvertEnd

Spec == Init /\ [][Next]_vars

----------------------------------------------------------------------------
(* Tokens(j) and a caller that pulls until c.Token() returns an error *)

InitPull ==
    /\ c = NewConverter
    /\ src = NewSource
    /\ pc = "pull"
    /\ ret = Running
    /\ sink = <<>>
    /\ sinkErr = "nil"
    /\ pulled = <<>>
    /\ consumed = <<>>
    /\ last = NoPull
    /\ open = <<>>
    /\ closed = NoClosed

\* one c.Token() call on the well-formed decoder
Pull ==
    /\ pc = "pull"
    /\ \E a1 \in (IF CallsMade(c, RespEOF) = 0 THEN {Answer(RespEOF, src)}
                  ELSE WFResponses(src, Len(c.keyNames))) :
       \E a2 \in (IF CallsMade(c, a1.r) < 2 THEN {a1}
                  ELSE WFResponses(a1.s, Len(c.keyNames) + 1)) :
        LET res == Token(c, a1.r, a2.r) IN
        /\ Observe(res, a1.r, a2.r)
        /\ src' = IF res.calls = 0 THEN src ELSE IF res.calls = 1 THEN a1.s ELSE a2.s
        /\ pc' = IF res.err = "nil" THEN "pull" ELSE "stopped"
    /\ UNCHANGED <<ret, sink, sinkErr, pulled, consumed>>

NextPull == Pull

SpecPull == InitPull /\ [][NextPull]_vars

----------------------------------------------------------------------------
(* Claims on well-formed token streams (SpecPull) *)

\* the entry is the value of an object field and is / is not an array
KeyBoundArray(e) == e.kind = typArray /\ e.key # <<>>
KeyedNonArray(e) == e.kind # typArray /\ e.key # <<>>

\* the most recent pull was the final one: the decoder signalled end-of-input
FinalPull == pc = "stopped" /\ last.valid /\ last.err = "EOF"

\* C1: on a well-formed token stream the Frame Stack is empty before the first
\* pull of a fresh Converter and empty again after the final pull, the one that
\* signals end-of-input.
C1_FrameStackBalanced ==
    /\ ~last.valid => c.types = <<>>
    /\ FinalPull => c.types = <<>>

\* a document was converted to its end and the final pull was made
C1_Witness == FinalPull /\ src.finished /\ last.calls = 1 /\ c.types = <<>>

\* C2 (as claimed): for every key-bound array, the start and end tag of the
\* array's container and of every element directly under it carry the governing
\* key, and the key is on the Pending Key Stack while the array is open.
C2_KeyBoundArrayNames ==
    /\ \A i \in 1..Len(open) :
        /\ KeyBoundArray(open[i]) =>
              /\ open[i].name = open[i].key[1]
              /\ \E p \in 1..Len(c.keyNames) : c.keyNames[p] = open[i].key[1]
        /\ (i > 1 /\ KeyBoundArray(open[i - 1])) => open[i].name = open[i - 1].key[1]
    /\ closed.valid =>
        /\ KeyBoundArray(closed.e) => closed.endName = closed.e.key[1]
        /\ closed.parentKey # <<>> => closed.endName = closed.parentKey[1]

\* C3 (as claimed): for every array without governing key (the root array, or an
\* array nested only inside such arrays) the container's tags are named "array"
\* and every element directly under it has start and end tag named by its own
\* kind's default name.
C3_UnboundArrayNames ==
    /\ \A i \in 1..Len(open) :
        /\ UnboundChain(open, i) => open[i].name = "array"
        /\ (i > 1 /\ UnboundChain(open, i - 1)) => open[i].name = TypeName(open[i].kind)
    /\ closed.valid =>
        /\ closed.selfUnbound => closed.endName = "array"
        /\ closed.parentUnbound => closed.endName = TypeName(closed.e.kind)

\* the most recent pull read a key and opened that field's value, not an array
OpenedKeyedNonArray ==
    /\ last.valid /\ last.calls = 2 /\ last.tok # <<>> /\ last.tok[1].x = "start"
    /\ Top(open).kind # typArray

\* C4 (as claimed): for every object field whose value is not an array, the start
\* tag is named by the key, the key is popped at open time, and the matching end
\* tag is named by the value's kind default name.
C4_KeyedValueClosesByKind ==
    /\ \A i \in 1..Len(open) : KeyedNonArray(open[i]) => open[i].name = open[i].key[1]
    /\ OpenedKeyedNonArray => c.keyNames = last.pre.keyNames
    /\ (closed.valid /\ KeyedNonArray(closed.e)) =>
            closed.endName = TypeName(closed.e.kind)

\* C4 (amended): the start tag is named by the key; the key is popped at open time
\* unless it equals the top of the Array-Binding Stack; the end tag is named by the
\* top of the Pending Key Stack at close time if there is one and by the value's
\* kind default name otherwise, which is always so while the stream has delivered
\* no start-of-array.
C4_KeyedValueCloseName ==
    /\ \A i \in 1..Len(open) : KeyedNonArray(open[i]) => open[i].name = open[i].key[1]
    /\ OpenedKeyedNonArray =>
            c.keyNames =
                IF last.pre.arrayKeys # <<>> /\ Top(last.pre.arrayKeys) = Top(open).key[1]
                THEN Append(last.pre.keyNames, Top(open).key[1])
                ELSE last.pre.keyNames
    /\ (closed.valid /\ KeyedNonArray(closed.e)) =>
            /\ closed.endName = IF last.pre.keyNames = <<>>
                                THEN TypeName(closed.e.kind)
                                ELSE Top(last.pre.keyNames)
            /\ ~src.arrays => closed.endName = TypeName(closed.e.kind)

\* a keyed object in an array-free stream closed by its kind's name, not its key
C4_Witness ==
    /\ closed.valid /\ KeyedNonArray(closed.e) /\ ~src.arrays
    /\ closed.e.kind = typObject
    /\ closed.e.name = "a" /\ closed.endName = "object"

----------------------------------------------------------------------------
(* Claims on Convert and on pulls from an arbitrary decoder (Spec) *)

\* the token stream of {"a":1}
Scenario1 == <<Delim("{"), JString("a"), JFloat(1), Delim("}")>>

\* Convert returned nil after the decoder delivered exactly Scenario1 and io.EOF
Scenario1Converted == ret = Returned("nil", "success") /\ consumed = Scenario1

\* C5 (as claimed): Convert on the token stream of {"a":1} forwards exactly
\* <root>, <a>, "1", </number>, </root>.
C5_Scenario1AsClaimed ==
    Scenario1Converted =>
        sink = <<StartElement("root"), StartElement("a"), CharData("1"),
                 EndElement("number"), EndElement("root")>>

\* C5 (amended): Convert on the token stream of {"a":1} forwards exactly
\* <root>, <object>, <a>, "1", </number>, </object>, </root>: the root object
\* gets its own element, named by its kind.
C5_Scenario1 ==
    Scenario1Converted =>
        sink = <<StartElement("root"), StartElement("object"), StartElement("a"),
                 CharData("1"), EndElement("number"), EndElement("object"),
                 EndElement("root")>>

C5_Witness == Scenario1Converted /\ Len(sink) = 7

\* the frame stack top before the most recent pull is typ
PreTopIs(typ) == last.pre.types # <<>> /\ Top(last.pre.types) = typ

\* the j-th token the most recent pull read is the delimiter ch
ReadDelim(j, ch) ==
    /\ last.valid /\ Len(last.resp) >= j /\ last.resp[j].err = "nil"
    /\ last.resp[j].tok.t = "delim" /\ last.resp[j].tok.s = ch

\* the most recent pull read, as its j-th token, a closing marker that does not
\* match the innermost open frame
MismatchedClose(j) ==
    \/ ReadDelim(j, "}") /\ ~PreTopIs(typObject)
    \/ ReadDelim(j, "]") /\ ~PreTopIs(typArray)

\* C6 (as claimed): a pull that reads a closing marker whose kind does not match
\* the innermost open frame (empty stack included, "]" in an Object included)
\* fails with InvalidTokenError and returns no token.
C6_MismatchIsInvalidToken ==
    \A j \in 1..2 : MismatchedClose(j) => last.err = "ErrInvalidToken" /\ last.tok = <<>>

\* C6 (amended): such a pull returns no token and fails with InvalidTokenError,
\* except that an end-of-array marker read in key position (the first token of a
\* pull whose innermost frame is an Object) fails with InvalidKeyError; read as
\* the value after a key it fails with InvalidTokenError.
C6_MismatchFails ==
    \A j \in 1..2 : MismatchedClose(j) =>
        /\ last.tok = <<>>
        /\ last.err = IF j = 1 /\ ReadDelim(1, "]") /\ PreTopIs(typObject)
                      THEN "ErrInvalidKey" ELSE "ErrInvalidToken"

\* an end-of-array marker was read as the value of a key of an open object
C6_Witness ==
    /\ MismatchedClose(2) /\ ReadDelim(2, "]") /\ PreTopIs(typObject)
    /\ last.err = "ErrInvalidToken"

\* the most recent pull, made with an Object innermost, first read a token that
\* is neither "}" nor a string
BadKeyRead ==
    /\ last.valid /\ PreTopIs(typObject) /\ last.pre.data = <<>>
    /\ Len(last.resp) >= 1 /\ last.resp[1].err = "nil"
    /\ ~ReadDelim(1, "}") /\ last.resp[1].tok.t # "string"

\* C7: when the innermost frame is an Object and the next source token is neither
\* an end-of-object marker nor a string, the pull fails with InvalidKeyError,
\* returns no token and makes no second read.
C7_InvalidKey ==
    BadKeyRead => last.err = "ErrInvalidKey" /\ last.tok = <<>> /\ last.calls = 1

C7_Witness == BadKeyRead /\ last.resp[1].tok = JFloat(1) /\ last.err = "ErrInvalidKey"

\* no pull and no EncodeToken call has failed so far
NoFailure == sinkErr = "nil" /\ last.err \in {"nil", "EOF"}

\* C8: on a run of Convert in which no pull and no sink call fails, the sink
\* receives the start tag root, then every token the pulls returned, in pull
\* order, then the end tag root, and Convert returns nil.
C8_ForwardsAll ==
    NoFailure =>
        /\ pc \in {"loop", "end"} => sink = <<StartElement("root")>> \o pulled
        /\ pc = "done" =>
              /\ ret = Returned("nil", "success")
              /\ sink = <<StartElement("root")>> \o pulled \o <<EndElement("root")>>

C8_Witness == NoFailure /\ pc = "done" /\ Len(pulled) >= 5

IsPrefix(s, t) == Len(s) <= Len(t) /\ SubSeq(t, 1, Len(s)) = s

\* a pull failed with an error other than io.EOF
PullFailed == last.valid /\ last.err \notin {"nil", "EOF"}

\* the encoder failed on a token the loop forwarded
ForwardFailed == sinkErr # "nil" /\ last.valid /\ last.err = "nil"

C9_Stops ==
    /\ PullFailed => pc = "done" /\ ret = Returned(last.err, "pull")
    /\ ForwardFailed => pc = "done" /\ ret = Returned(sinkErr, "forward")
    /\ (PullFailed \/ ForwardFailed) =>
            \A i \in 1..Len(sink) : sink[i] # EndElement("root")

\* C9: if a pull fails with an error other than end-of-input, or the sink fails
\* on a forwarded token, Convert stops pulling, returns that same error, never
\* sends the end tag root, and what was forwarded before stays in the sink's
\* received sequence.
C9_FailureAborts == []C9_Stops /\ [][IsPrefix(sink, sink')]_vars

C9_Witness == ForwardFailed /\ Len(sink) >= 3 /\ pc = "done"

\* C10: every pull makes zero, one or two reads of the source (decoder.Token()
\* calls) and returns at most one XML token; it makes two only when the innermost
\* frame is an Object and the first token read is a string (a key), and zero
\* exactly when the Pending Text Buffer holds a value or the innermost frame is a
\* scalar.
C10_ReadsPerPull ==
    last.valid =>
        /\ last.calls \in {0, 1, 2}
        /\ Len(last.tok) <= 1
        /\ last.calls = 2 =>
              /\ PreTopIs(typObject)
              /\ last.resp[1].err = "nil" /\ last.resp[1].tok.t = "string"
        /\ last.calls = 0 <=>
              \/ last.pre.data # <<>>
              \/ last.pre.types # <<>> /\ Top(last.pre.types) \notin {typObject, typArray}

\* a pull that read a key and its value, and one that read nothing, both happened
C10_Witness ==
    /\ last.valid /\ last.calls = 2 /\ last.tok # <<>>
    /\ Len(pulled) >= 4

----------------------------------------------------------------------------
(* Claims on the sequence of pulls *)

\* the most recent pull returned a token of kind x
Returned1(x) == last.valid /\ last.tok # <<>> /\ last.tok[1].x = x

\* a scalar frame (boolean, number, string, null) is on top of the frame stack
ScalarOnTop(cv) == cv.types # <<>> /\ Top(cv.types) \notin {typObject, typArray}

\* the most recent pull returned the start tag of a scalar
ScalarOpened == Returned1("start") /\ ScalarOnTop(c)

\* a pull signalled end-of-input only on the decoder's io.EOF, with an empty
\* text buffer and no scalar frame open
C11_EndOnlyWhenDrained ==
    (last.valid /\ last.err = "EOF") =>
        /\ last.resp # <<>> /\ Top(last.resp).err = "EOF"
        /\ last.pre.data = <<>>
        /\ ~ScalarOnTop(last.pre)

\* after a scalar's start tag the next two pulls return character data and an
\* end tag, neither of them an error
C11_ScalarDrainsFirst ==
    /\ ScalarOpened => last'.err = "nil" /\ last'.tok # <<>> /\ last'.tok[1].x = "chardata"
    /\ Returned1("chardata") => last'.err = "nil" /\ last'.tok # <<>> /\ last'.tok[1].x = "end"

\* C11: a pull signals end-of-input only when the source is exhausted, the
\* Pending Text Buffer is empty and no scalar frame is open; after a scalar's
\* start tag the next two pulls return its character data and its end tag before
\* any pull signals end-of-input, also when the source is already exhausted.
C11_EndOfInput == []C11_EndOnlyWhenDrained /\ [][C11_ScalarDrainsFirst]_vars

\* the source delivered one number and was exhausted: three tokens were pulled
\* before the pull that signalled end-of-input
C11_Witness ==
    /\ last.valid /\ last.err = "EOF" /\ consumed = <<JFloat(1)>>
    /\ Len(pulled) = 3 /\ pulled[2].x = "chardata" /\ pulled[3].x = "end"

\* the most recent pull read a key and the opening marker of its value
KeyedContainerOpened ==
    /\ Returned1("start") /\ last.calls = 2
    /\ Top(last.resp).tok.t = "delim"

\* the closing marker of the container the most recent pull opened
ClosingMarker == IF Top(last.resp).tok.s = "{" THEN Delim("}") ELSE Delim("]")

\* when the pull after the one that opened a field's container reads the
\* container's closing marker, it returns an end tag and reads nothing more
C12_NextIsEnd ==
    (KeyedContainerOpened /\ last'.resp # <<>> /\ last'.resp[1] = Resp("nil", ClosingMarker)) =>
        /\ last'.err = "nil" /\ last'.calls = 1
        /\ last'.tok # <<>> /\ last'.tok[1].x = "end"
        /\ pulled' = pulled \o last'.tok

\* C12: for an object field whose value is an empty object or an empty array,
\* the pull that reads the key and the opening marker returns a start tag, the
\* very next pull returns an end tag and no other token is emitted between them.
C12_EmptyContainerField ==
    /\ [](last.valid /\ last.calls = 2 /\ last.err = "nil" /\ Top(last.resp).tok.t = "delim"
             /\ Top(last.resp).tok.s \in {"{", "["}
          => Returned1("start"))
    /\ [][C12_NextIsEnd]_vars

\* {"a":[]} was read up to the end of the array: <a> and its end tag are the
\* second and third token pulled
C12_Witness ==
    /\ consumed = <<Delim("{"), JString("a"), Delim("["), Delim("]")>>
    /\ Len(pulled) = 3 /\ pulled[2] = StartElement("a") /\ pulled[3].x = "end"
    /\ last.calls = 1

----------------------------------------------------------------------------
(* Claims on the stacks *)

RECURSIVE CountOf(_, _)
\* how many entries of the stack st equal v
CountOf(st, v) ==
    IF st = <<>> THEN 0
    ELSE CountOf(Pop(st), v) + (IF Top(st) = v THEN 1 ELSE 0)

\* C13 (as claimed): after every pull on a well-formed token stream the Pending
\* Key Stack has at most as many entries as there are Object frames open, and it
\* is empty after the final pull.
C13_KeysBoundedByObjects ==
    /\ last.valid => Len(c.keyNames) <= CountOf(c.types, typObject)
    /\ FinalPull => c.keyNames = <<>>

\* the start tags minus the end tags among the tokens toks
RECURSIVE Nesting(_)
Nesting(toks) ==
    IF toks = <<>> THEN 0
    ELSE Nesting(Pop(toks)) + (CASE Top(toks).x = "start" -> 1
                                 [] Top(toks).x = "end" -> -1
                                 [] OTHER -> 0)

\* C14: the Frame Stack depth equals the number of start tags returned so far
\* minus the number of end tags returned so far; a frame is pushed exactly in the
\* pulls that return a start tag and popped exactly in those that return an end
\* tag.
C14_DepthIsNesting ==
    /\ Len(c.types) = Nesting(pulled)
    /\ last.valid =>
          /\ Returned1("start") <=> Len(c.types) = Len(last.pre.types) + 1
          /\ Returned1("end") <=> Len(c.types) = Len(last.pre.types) - 1
          /\ Returned1("start") => Pop(c.types) = last.pre.types
          /\ Returned1("end") => c.types = Pop(last.pre.types)
          /\ ~(Returned1("start") \/ Returned1("end")) => c.types = last.pre.types

\* two frames are open after a pull that closed a third
C14_Witness == Len(c.types) = 2 /\ Returned1("end") /\ Len(pulled) >= 4

RECURSIVE Bindings(_)
\* the arrayKeys entries the open frames pushed, bottom first
Bindings(st) ==
    IF st = <<>> THEN <<>> ELSE Bindings(Pop(st)) \o Top(st).bound

\* C15: on a well-formed token stream a start-of-array pushes an Array-Binding
\* Stack entry exactly when the Pending Key Stack is non-empty at that moment, the
\* end-of-array pull pops an entry exactly when the matching start-of-array
\* pushed one, and that entry is the one it pushed: the Array-Binding Stack is
\* always the entries pushed by the arrays still open.
C15_BindingsMatchArrays ==
    /\ c.arrayKeys = Bindings(open)
    /\ \A i \in 1..Len(open) : open[i].kind # typArray => open[i].bound = <<>>
    /\ (Returned1("start") /\ Top(open).kind = typArray) =>
          (Top(open).bound # <<>> <=> (last.pre.keyNames # <<>> \/ last.calls = 2))
    /\ (closed.valid /\ closed.e.kind = typArray) =>
          /\ closed.e.bound # <<>> =>
                /\ last.pre.arrayKeys # <<>>
                /\ c.arrayKeys = Pop(last.pre.arrayKeys)
                /\ Top(last.pre.arrayKeys) = closed.e.bound[1]
          /\ closed.e.bound = <<>> => c.arrayKeys = last.pre.arrayKeys

\* an array inside a key-bound array closed and popped its own entry, the outer
\* array's entry staying
C15_Witness ==
    /\ closed.valid /\ closed.e.kind = typArray /\ closed.e.bound = <<"b">>
    /\ c.arrayKeys = <<"a">>

----------------------------------------------------------------------------
(* Claims on scalars, on failed pulls and on termination *)

\* the text of a scalar token: booleans as true / false, a float64 in its
\* shortest decimal form, a json.Number in its own digits, a string verbatim,
\* null as the empty text
ScalarText(tok) ==
    CASE tok = JBool(TRUE)      -> "true"
      [] tok = JBool(FALSE)     -> "false"
      [] tok = JFloat(1)        -> "1"
      [] tok = JNumber("2.50")  -> "2.50"
      [] tok.t = "string"       -> tok.s
      [] tok = JNull            -> ""

\* after a scalar's start tag: the next pull returns the scalar's text, clears
\* the buffer, keeps the frame and reads nothing; the pull after it returns an
\* end tag, pops the frame and reads nothing
C16_TextThenEnd ==
    /\ ScalarOpened =>
          /\ last'.err = "nil" /\ last'.calls = 0
          /\ last'.tok = <<CharData(ScalarText(Top(last.resp).tok))>>
          /\ c.data # <<>> /\ c'.data = <<>>
          /\ c'.types = c.types
          /\ consumed' = consumed
    /\ Returned1("chardata") =>
          /\ last'.err = "nil" /\ last'.calls = 0
          /\ last'.tok # <<>> /\ last'.tok[1].x = "end"
          /\ ScalarOnTop(c) /\ c'.types = Pop(c.types)
          /\ consumed' = consumed

\* C16: after a pull that returns a scalar's start tag, the next pull returns
\* character data equal to the scalar's formatted text and clears the Pending
\* Text Buffer, the pull after that returns the scalar's end tag and pops its
\* frame, and neither of the two reads a source token.
C16_ScalarSequence == [][C16_TextThenEnd]_vars

\* a json.Number was read and its three tokens were pulled, the digits unchanged
C16_Witness ==
    /\ consumed = <<JNumber("2.50")>> /\ Returned1("end") /\ last.calls = 0
    /\ pulled = <<StartElement("number"), CharData("2.50"), EndElement("number")>>

\* C17: in every state reached by pulls from a fresh Converter, on any token
\* stream, a scalar frame is only ever the top entry of the Frame Stack, and the
\* Pending Text Buffer holds a value only while the top frame is a scalar.
C17_ScalarOnlyOnTop ==
    /\ \A i \in 1..(Len(c.types) - 1) : c.types[i] \in {typObject, typArray}
    /\ c.data # <<>> => ScalarOnTop(c)

\* a scalar is open above two containers, its text still buffered
C17_Witness == Len(c.types) = 3 /\ ScalarOnTop(c) /\ c.data # <<>>

\* the most recent pull returned an error (io.EOF included)
PullErred == last.valid /\ last.err # "nil"

\* C18: a pull that fails leaves the Frame Stack, the Array-Binding Stack and the
\* Pending Text Buffer as they were before the pull; the Pending Key Stack is
\* unchanged or has grown by exactly the key read in that pull, and is unchanged
\* when the failure is InvalidKeyError.
C18_FailedPullFrame ==
    PullErred =>
        /\ last.tok = <<>>
        /\ c.types = last.pre.types
        /\ c.arrayKeys = last.pre.arrayKeys
        /\ c.data = last.pre.data
        /\ \/ c.keyNames = last.pre.keyNames
           \/ /\ last.calls = 2
              /\ last.resp[1].tok.t = "string"
              /\ c.keyNames = Append(last.pre.keyNames, last.resp[1].tok.s)
        /\ last.err = "ErrInvalidKey" => c.keyNames = last.pre.keyNames
        /\ last.calls = 1 => c.keyNames = last.pre.keyNames

\* a pull read a key and then failed on the value: the key stays pushed
C18_Witness ==
    /\ PullErred /\ last.err = "ErrInvalidToken" /\ last.calls = 2
    /\ c.keyNames = Append(last.pre.keyNames, "a")

\* the most recent pull returned io.EOF
EOFSeen == last.valid /\ last.err = "EOF"

\* C19: Convert treats io.EOF from the source as normal termination whatever the
\* Frame Stack depth: it leaves the loop, sends the end tag root after exactly
\* the tokens pulled (no end tag is added for the frames still open) and, the
\* encoder accepting that tag, returns nil.
C19_EOFTerminates ==
    EOFSeen =>
        /\ pc \in {"end", "done"}
        /\ pc = "end" => ret = Running /\ sink = <<StartElement("root")>> \o pulled
        /\ pc = "done" =>
              /\ sink = <<StartElement("root")>> \o pulled \o <<EndElement("root")>>
              /\ Nesting(sink) = Len(c.types)
              /\ ret = IF sinkErr = "nil" THEN Returned("nil", "success")
                       ELSE Returned(sinkErr, "rootEnd")

\* Convert returned nil on a stream cut while two frames were open
C19_Witness ==
    /\ EOFSeen /\ pc = "done" /\ ret = Returned("nil", "success")
    /\ Len(c.types) = 2 /\ Top(sink) = EndElement("root")

\* Convert is one sequential loop: a step that can be taken is taken
FairSpec == Spec /\ WF_vars(Next)

\* the pulls made so far: every pull that succeeded returned one token, and a
\* pull that failed is the last one
Pulls == Len(pulled) + (IF PullErred THEN 1 ELSE 0)

C20_PullBound ==
    /\ last.valid /\ last.err = "nil" => Len(last.tok) = 1
    /\ Pulls <= 3 * Len(consumed) + 1

C20_ThirdPullReads ==
    pc = "loop" /\ last.valid /\ last.calls = 0 /\ last'.calls = 0 /\ pc' = "loop"
        => CallsMade(c', RespEOF) >= 1

\* C20: on a finite source that ends in io.EOF or an error Convert eventually
\* returns; after two consecutive pulls that read no source token the next pull
\* reads one, and the number of pulls is at most three times the number of
\* source tokens read plus one.
C20_Terminates ==
    /\ <>(pc = "done" /\ ret # Running)
    /\ []C20_PullBound
    /\ [][C20_ThirdPullReads]_vars

\* Convert returned after two scalars: three pulls each and the pull that met
\* io.EOF
C20_Witness ==
    /\ pc = "done" /\ EOFSeen /\ Len(consumed) = 2 /\ Pulls = 7
    /\ last.pre.types = <<>>

====
